---- MODULE Spec2Model ----
(***************************************************************************)
(* The narration sequencer of pdf-narrator (src/hydrant1.py, class App):   *)
(* the Tk event loop's pending after() callbacks, the background speech    *)
(* threads, and the handlers start_narration, skip_narration, next_figure, *)
(* load_files, process_narration_step and display_page.                    *)
(***************************************************************************)
EXTENDS Integers, Sequences, FiniteSets, Bags, TLC

\* ------------------------------------------------------------------ bounds
MaxSteps == 3        \* longest narration script that load_files is given
MaxPage == 2         \* largest page_number a narration step names
MaxPending == 2      \* callbacks and speech threads a command may leave pending
MaxExtent == 4       \* largest width and height of the canvas of display_page
MaxCoord == 3        \* largest x1 and y1 of a zoom_rect given to display_page
MaxOverrun == 2      \* main.py: how far past len(steps) a command is followed

\* ------------------------------------------------------- program constants
RetryMs == 100       \* display_page: self.after(100, ...) retry
GraceMs == 1000      \* _speak_and_continue: self.after(1000, ...)
RestartMs == 100     \* skip_narration / next_figure: self.after(100, ...)
PostMs == 0          \* _narrate_step: self.after(0, ...)
UnsizedExtent == 1   \* winfo_width()/winfo_height() of a canvas not laid out
MainZoom == 2        \* main.py display_page: zoom_factor=2.0
DefaultSpeed == 24   \* speed_var = 1.5, in sixteenths
SpeedOffset == 20    \* speak: the 1.25 taken off the speed, in sixteenths
SpeedDivisor == 2    \* speak: the factor 8 on a speed in sixteenths, 8 / 16

\* ------------------------------------------------------------------ inputs
LongDelayMs == 500   \* a pre_speech_delay_ms between the retry and the grace

\* zoom_rect absent (None, or an empty list): the full page.
NoRect == <<>>

\* page.rect, the bounds <<x0, y0, x1, y1>> of every page of the document.
PageRect == <<0, 0, 3, 4>>

\* The canvas sizes the window can have: not laid out, or a real size.
CanvasSizes == {<<UnsizedExtent, UnsizedExtent>>, <<8, 6>>}

\* The canvas sizes display_page is tried on, the unsized ones among them.
ViewportSizes == (UnsizedExtent..MaxExtent) \X (UnsizedExtent..MaxExtent)

\* The zoom_rect lists <<x0, y0, x1, y1>> display_page is tried on: with an
\* area, empty, and turned over; and None.
ZoomRects ==
    {<<1, 1, x1, y1>> : x1 \in 0..MaxCoord, y1 \in 0..MaxCoord} \cup {NoRect}

\* page_count of the documents load_pdf can return; 0 stands for None
\* (the file failed to load).  A document of MaxPage pages lacks page MaxPage.
DocChoices == {0, MaxPage}

\* The positions of the speed slider (0.5 to 2.0), in sixteenths: its ends,
\* the default, and one between two rates.
SpeedChoices == {8, 19, DefaultSpeed, 32}

\* The narration step at (0-based) index k of a script whose pages are given:
\* title-page steps carry no zoom_rect, the others a rectangle of their own;
\* the pre-speech delays alternate between 0 and LongDelayMs.
StepOf(pages, k) ==
    [page_number |-> pages[k + 1],
     zoom_rect |-> IF pages[k + 1] = 0 THEN NoRect ELSE <<0, 0, k + 2, k + 1>>,
     pre_speech_delay_ms |-> IF k % 2 = 0 THEN 0 ELSE LongDelayMs,
     narration_text |-> k + 1]

PageSeqs == UNION {[1..n -> 0..MaxPage] : n \in 0..MaxSteps}

\* What load_script returns: None (loaded = FALSE) or the parsed script.
NoScript == [loaded |-> FALSE, narration_steps |-> <<>>]

ScriptOf(pages) ==
    [loaded |-> TRUE,
     narration_steps |-> [k \in 1..Len(pages) |-> StepOf(pages, k - 1)]]

Scripts == {ScriptOf(pages) : pages \in PageSeqs}

\* The scripts of one step, on any page, with any zoom_rect, spoken at once
\* or after a delay.
OneStepScripts ==
    {[loaded |-> TRUE,
      narration_steps |-> <<[page_number |-> page_number,
                             zoom_rect |-> zoom_rect,
                             pre_speech_delay_ms |-> pre_speech_delay_ms,
                             narration_text |-> 1]>>] :
        page_number \in 0..MaxPage, zoom_rect \in ZoomRects,
        pre_speech_delay_ms \in {0, LongDelayMs}}

\* The scripts that walk the document front to back, one page a step:
\* pages <<>>, <<0>>, <<0, 1>>, <<0, 1, 2>>, ... up to MaxSteps steps.
RampScripts ==
    {ScriptOf([k \in 1..n |-> IF k - 1 < MaxPage THEN k - 1 ELSE MaxPage]) :
        n \in 0..MaxSteps}

VARIABLES
    doc,                \* self.doc: page_count of the document, 0 for None
    script_data,        \* self.script_data
    current_step,       \* self.current_step
    is_narrating,       \* self.is_narrating
    narration_enabled,  \* self.narration_enabled
    speed_var,          \* self.speed_var, in sixteenths
    canvas,             \* <<winfo_width(), winfo_height()>> of self.canvas
    view,               \* what self.canvas shows
    timers,             \* the event loop's pending after() callbacks, by due time
    threads,            \* bag of the speech threads still in _narrate_step
    last,               \* the handler that ran last and the branch it took
    recording           \* whether the history of the speech calls is kept

vars == <<doc, script_data, current_step, is_narrating, narration_enabled,
          speed_var, canvas, view, timers, threads, last, recording>>

\* ------------------------------------------------------------- the canvas
Unsized == canvas[1] = UnsizedExtent \/ canvas[2] = UnsizedExtent

LaidOutSizes ==
    {size \in CanvasSizes :
        size[1] /= UnsizedExtent /\ size[2] /= UnsizedExtent}

\* Rect.width and Rect.height of a rectangle <<x0, y0, x1, y1>>.
width(rect) == IF rect[3] > rect[1] THEN rect[3] - rect[1] ELSE 0
height(rect) == IF rect[4] > rect[2] THEN rect[4] - rect[2] ELSE 0

\* display_page without its fallback for an invalid rectangle.
clip_rect_as_given(zoom_rect) ==
    IF zoom_rect /= NoRect THEN zoom_rect ELSE PageRect

\* The rectangle display_page renders: the zoom_rect when there is one, the
\* page otherwise, and the page again when the rectangle has no area.
clip_rect(zoom_rect) ==
    LET rect == IF zoom_rect /= NoRect THEN zoom_rect ELSE PageRect
    IN  IF width(rect) <= 0 \/ height(rect) <= 0 THEN PageRect ELSE rect

\* A quotient a / b is kept exact, as the pair <<a, b>> with b > 0.
Less(x, y) == x[1] * y[2] < y[1] * x[2]

\* min(x, y) of Python: the first argument on a tie.
min(x, y) == IF Less(y, x) THEN y ELSE x

\* display_page that fills the canvas: the larger of the two factors.
zoom_factor_fill(rect) ==
    LET zoom_x == <<canvas[1], width(rect)>>
        zoom_y == <<canvas[2], height(rect)>>
    IN  IF Less(zoom_x, zoom_y) THEN zoom_y ELSE zoom_x

\* The zoom of display_page for the rectangle it renders, on the canvas as
\* it is now.
zoom_factor(rect) ==
    LET zoom_x == <<canvas[1], width(rect)>>
        zoom_y == <<canvas[2], height(rect)>>
    IN  min(zoom_x, zoom_y)

NoImage == [clip_rect |-> <<>>, zoom_factor |-> <<>>]

Blank ==
    [kind |-> "blank", page_num |-> 0, zoom_rect |-> NoRect, pix |-> NoImage]
ErrorText ==
    [kind |-> "error", page_num |-> 0, zoom_rect |-> NoRect, pix |-> NoImage]

\* The image display_page puts on the canvas for page_num and zoom_rect.
Image(page_num, zoom_rect) ==
    [kind |-> "image", page_num |-> page_num, zoom_rect |-> zoom_rect,
     pix |-> [clip_rect |-> clip_rect(zoom_rect),
              zoom_factor |-> zoom_factor(clip_rect(zoom_rect))]]

\* ------------------------------------------------------ after() callbacks
\* skipped is history: the callback is the completion of a speech call whose
\* step was skipped.
Callback(fn, page_num, zoom_rect, text) ==
    [fn |-> fn, page_num |-> page_num, zoom_rect |-> zoom_rect, text |-> text,
     skipped |-> FALSE]

InsertAt(q, p, e) ==
    [k \in 1..(Len(q) + 1) |->
        IF k <= p THEN q[k] ELSE IF k = p + 1 THEN e ELSE q[k - 1]]

\* The places in the timer queue where a callback due in ms can go: behind
\* every pending callback that was given a delay of at most ms (it was posted
\* earlier, so it is due no later, and Tk fires equal due times in posting
\* order); before or behind the rest, whose remaining time is anyone's guess.
Slots(q, ms) ==
    {p \in 0..Len(q) : \A k \in 1..Len(q) : q[k].ms <= ms => k <= p}

\* self.after(ms, cb) on the application state s.
after(s, ms, cb) ==
    {[s EXCEPT !.timers = InsertAt(s.timers, p, [ms |-> ms, cb |-> cb])] :
        p \in Slots(s.timers, ms)}

\* ----------------------------------------------------------- the handlers
\* The fields of the application the handlers read and write.
Self ==
    [doc |-> doc, script_data |-> script_data, current_step |-> current_step,
     is_narrating |-> is_narrating, view |-> view, timers |-> timers,
     threads |-> threads, out |-> "none"]

\* display_page whose retry forgets the zoom_rect.
display_page_retry_full(s, page_num, zoom_rect) ==
    IF s.doc = 0 \/ page_num >= s.doc
    THEN {s}
    ELSE IF Unsized
         THEN after(s, RetryMs, Callback("display_page", page_num, NoRect, 0))
         ELSE {[s EXCEPT !.view = Image(page_num, zoom_rect)]}

display_page(s, page_num, zoom_rect) ==
    IF s.doc = 0 \/ page_num >= s.doc
    THEN {s}
    ELSE IF Unsized
         THEN after(s, RetryMs, Callback("display_page", page_num, zoom_rect, 0))
         ELSE {[s EXCEPT !.view = Image(page_num, zoom_rect)]}

process_narration_step(s) ==
    LET steps == s.script_data.narration_steps IN
    IF ~s.is_narrating \/ s.current_step >= Len(steps)
    THEN display_page([s EXCEPT !.is_narrating = FALSE, !.out = "finished"],
                      0, NoRect)
    ELSE LET step_data == steps[s.current_step + 1] IN
         UNION {after(t, step_data.pre_speech_delay_ms,
                      Callback("_speak_and_continue", 0, NoRect,
                               step_data.narration_text)) :
                t \in display_page([s EXCEPT !.out = "step"],
                                   step_data.page_number, step_data.zoom_rect)}

\* start_narration that does not test is_narrating.
start_narration_reentrant(s) ==
    IF ~s.script_data.loaded
    THEN {[s EXCEPT !.out = "ignored"]}
    ELSE process_narration_step(
             [s EXCEPT !.is_narrating = TRUE, !.current_step = 0])

\* start_narration that does not test script_data.
start_narration_unloaded(s) ==
    IF s.is_narrating
    THEN {[s EXCEPT !.out = "ignored"]}
    ELSE process_narration_step(
             [s EXCEPT !.is_narrating = TRUE, !.current_step = 0])

start_narration(s) ==
    IF s.is_narrating \/ ~s.script_data.loaded
    THEN {[s EXCEPT !.out = "ignored"]}
    ELSE process_narration_step(
             [s EXCEPT !.is_narrating = TRUE, !.current_step = 0])

\* int(x) of Python for the quotient a / b, b > 0: rounds towards zero.
int(a, b) == IF a >= 0 THEN a \div b ELSE -((-a) \div b)

\* speak: rate = int((self.speed_var.get() - 1.25) * 8)
Rate(speed) == int(speed - SpeedOffset, SpeedDivisor)

NoRate == <<>>

\* threading.Thread(target=self._narrate_step, args=(text,)): the thread has
\* not set the rate of its voice yet.  issued and skipped are history: the
\* speed setting at the start of the thread, and that its step was skipped
\* since.
Thread(text) ==
    [text |-> text, rate |-> NoRate, issued |-> speed_var, skipped |-> FALSE]

\* _speak_and_continue that does not look at the checkbox.
_speak_and_continue_always(s, text) ==
    {[s EXCEPT !.threads = @ (+) SetToBag({Thread(text)}), !.out = "thread"]}

_speak_and_continue(s, text) ==
    IF narration_enabled
    THEN {[s EXCEPT !.threads = @ (+) SetToBag({Thread(text)}),
                    !.out = "thread"]}
    ELSE after([s EXCEPT !.out = "grace"], GraceMs,
               Callback("_advance_narration_step", 0, NoRect, 0))

\* speak on the thread th up to speaker.Rate = rate: the speed setting is
\* read when the thread gets there.
speak_sets_rate(s, th) ==
    [s EXCEPT !.threads = (@ (-) SetToBag({th}))
                  (+) SetToBag({[th EXCEPT !.rate = <<Rate(speed_var)>>]}),
              !.out = "rate"]

\* How speak(text) can end: the text was spoken, or the engine raised and
\* the except clause printed the error.  A voice that has no rate yet gets
\* it on the way to Speak.
speak(th) == {"spoken", "speech error"}

\* The completion the thread th posts; with the history kept, it is known
\* by the text that was spoken.
Completion(th) ==
    [Callback("_advance_narration_step", 0, NoRect,
              IF recording THEN th.text ELSE 0)
        EXCEPT !.skipped = th.skipped]

\* _narrate_step whose speak lets the exception through: the thread dies
\* before it posts anything.
_narrate_step_uncaught(s, th) ==
    UNION {IF outcome = "speech error"
           THEN {[s EXCEPT !.threads = @ (-) SetToBag({th}), !.out = outcome]}
           ELSE after([s EXCEPT !.threads = @ (-) SetToBag({th}),
                                !.out = outcome],
                      PostMs, Completion(th)) :
           outcome \in speak(th)}

\* _narrate_step on its thread: speak(text) returns, whichever way it
\* ended, and the thread posts _advance_narration_step to the event loop.
_narrate_step(s, th) ==
    UNION {after([s EXCEPT !.threads = @ (-) SetToBag({th}), !.out = outcome],
                 PostMs, Completion(th)) :
           outcome \in speak(th)}

\* _advance_narration_step without its is_narrating test.
_advance_narration_step_unguarded(s) ==
    process_narration_step([s EXCEPT !.current_step = @ + 1])

\* _advance_narration_step that steps over an index.
_advance_narration_step_by_two(s) ==
    IF s.is_narrating
    THEN process_narration_step([s EXCEPT !.current_step = @ + 2])
    ELSE {[s EXCEPT !.out = "ignored"]}

_advance_narration_step(s) ==
    IF s.is_narrating
    THEN process_narration_step([s EXCEPT !.current_step = @ + 1])
    ELSE {[s EXCEPT !.out = "ignored"]}

stop_narration(s) == [s EXCEPT !.is_narrating = FALSE, !.out = "stopped"]

\* skip_narration without its is_narrating test.
skip_narration_unguarded(s) ==
    after(stop_narration([s EXCEPT !.current_step = @ + 1]), RestartMs,
          Callback("process_narration_step", 0, NoRect, 0))

skip_narration(s) ==
    IF s.is_narrating
    THEN after(stop_narration([s EXCEPT !.current_step = @ + 1]), RestartMs,
               Callback("process_narration_step", 0, NoRect, 0))
    ELSE {[s EXCEPT !.out = "ignored"]}

\* The index the scan of next_figure stops at: the first index from
\* next_step_index on whose page is neither current_page nor 0, or
\* Len(steps) when the loop runs off the end.
\* The scan without its title-page test.
RECURSIVE scan_any_page(_, _, _)
scan_any_page(steps, current_page, next_step_index) ==
    IF next_step_index < Len(steps)
    THEN LET next_page == steps[next_step_index + 1].page_number IN
         IF next_page /= current_page
         THEN next_step_index
         ELSE scan_any_page(steps, current_page, next_step_index + 1)
    ELSE Len(steps)

\* The scan without its test against the current page.
RECURSIVE scan_any_figure(_, _, _)
scan_any_figure(steps, current_page, next_step_index) ==
    IF next_step_index < Len(steps)
    THEN LET next_page == steps[next_step_index + 1].page_number IN
         IF next_page /= 0
         THEN next_step_index
         ELSE scan_any_figure(steps, current_page, next_step_index + 1)
    ELSE Len(steps)

RECURSIVE scan(_, _, _)
scan(steps, current_page, next_step_index) ==
    IF next_step_index < Len(steps)
    THEN LET next_page == steps[next_step_index + 1].page_number IN
         IF next_page /= current_page /\ next_page /= 0
         THEN next_step_index
         ELSE scan(steps, current_page, next_step_index + 1)
    ELSE Len(steps)

next_figure(s) ==
    LET steps == s.script_data.narration_steps IN
    IF ~s.script_data.loaded
    THEN {[s EXCEPT !.out = "ignored"]}
    ELSE IF s.current_step >= Len(steps)
    THEN {[s EXCEPT !.out = "IndexError"]}
    ELSE LET current_page == steps[s.current_step + 1].page_number
             found == scan(steps, current_page, s.current_step + 1)
         IN  IF found < Len(steps)
             THEN IF s.is_narrating
                  THEN after(stop_narration([s EXCEPT !.current_step = found]),
                             RestartMs,
                             Callback("process_narration_step", 0, NoRect, 0))
                  ELSE process_narration_step(
                           [s EXCEPT !.current_step = found])
             ELSE {[s EXCEPT !.out = "not found"]}

load_files(s, pdf, script) ==
    LET t == [s EXCEPT !.doc = pdf, !.script_data = script,
                       !.current_step = 0, !.is_narrating = FALSE,
                       !.out = "loaded"]
    IN  IF t.doc /= 0
        THEN display_page(t, 0, NoRect)
        ELSE {[t EXCEPT !.view = ErrorText]}

\* ------------------------------------------------------------ the actions
\* The handler op has run and left the application in state t.
Becomes(op, t) ==
    /\ doc' = t.doc
    /\ script_data' = t.script_data
    /\ current_step' = t.current_step
    /\ is_narrating' = t.is_narrating
    /\ view' = t.view
    /\ timers' = t.timers
    /\ threads' = t.threads
    /\ last' = [op |-> op, out |-> t.out]
    /\ UNCHANGED <<narration_enabled, speed_var, canvas, recording>>

\* A command of the user is taken while the event loop has room for what it
\* leaves pending; the callbacks and the threads are never held back.
Command(op, t) ==
    /\ Len(t.timers) + BagCardinality(t.threads) <= MaxPending
    /\ Becomes(op, t)

StartNarration == \E t \in start_narration(Self) : Command("start_narration", t)

\* The application t with the speech calls for the text, and their
\* completions still in the queue, recorded as skipped.
Skipped(t, text) ==
    [t EXCEPT
        !.threads = BagOfAll(LAMBDA th : IF th.text = text
                                         THEN [th EXCEPT !.skipped = TRUE]
                                         ELSE th, @),
        !.timers = [k \in 1..Len(@) |->
                       IF @[k].cb.fn = "_advance_narration_step"
                          /\ @[k].cb.text = text
                       THEN [@[k] EXCEPT !.cb.skipped = TRUE]
                       ELSE @[k]]]

SkipNarration ==
    \E t \in skip_narration(Self) :
        Command("skip_narration",
                IF recording /\ is_narrating
                THEN Skipped(t, script_data.narration_steps[current_step + 1]
                                    .narration_text)
                ELSE t)

NextFigure == \E t \in next_figure(Self) : Command("next_figure", t)

\* load_files at startup or from open_new_pdf_and_script, given a PDF and a
\* script file of the family, either of which may fail to load.
LoadFiles ==
    \E pdf \in DocChoices, script \in RampScripts \cup {NoScript} :
        \E t \in load_files(Self, pdf, script) : Command("load_files", t)

\* The event loop runs the callback that is due first.
Run(s, cb) ==
    CASE cb.fn = "display_page" ->
            display_page([s EXCEPT !.out = "display"], cb.page_num, cb.zoom_rect)
      [] cb.fn = "_speak_and_continue" -> _speak_and_continue(s, cb.text)
      [] cb.fn = "_advance_narration_step" -> _advance_narration_step(s)
      [] cb.fn = "process_narration_step" -> process_narration_step(s)

TimerFires ==
    /\ timers /= <<>>
    /\ \E t \in Run([Self EXCEPT !.timers = Tail(timers)], Head(timers).cb) :
           Becomes(Head(timers).cb.fn, t)

\* A speech thread gets to the line of speak that sets the rate.
SpeakSetsRate ==
    \E th \in BagToSet(threads) :
        /\ th.rate = NoRate
        /\ Becomes("speak", speak_sets_rate(Self, th))

\* A speech thread comes to the end of _narrate_step.
NarrateStepReturns ==
    \E th \in BagToSet(threads) :
        \E t \in _narrate_step(Self, th) : Becomes("_narrate_step", t)

\* The "Enable Narration" checkbox.
ToggleNarration ==
    /\ narration_enabled' = ~narration_enabled
    /\ last' = [op |-> "narration_checkbox", out |-> "none"]
    /\ UNCHANGED <<doc, script_data, current_step, is_narrating, speed_var,
                   canvas, view, timers, threads, recording>>

\* The "Speech Speed" slider.
SetSpeed ==
    /\ \E speed \in SpeedChoices : speed /= speed_var /\ speed_var' = speed
    /\ last' = [op |-> "speed_slider", out |-> "none"]
    /\ UNCHANGED <<doc, script_data, current_step, is_narrating,
                   narration_enabled, canvas, view, timers, threads,
                   recording>>

\* The window is laid out: the canvas gets its real size.
Configure ==
    /\ Unsized
    /\ \E size \in LaidOutSizes : canvas' = size
    /\ last' = [op |-> "configure", out |-> "none"]
    /\ UNCHANGED <<doc, script_data, current_step, is_narrating,
                   narration_enabled, speed_var, view, timers, threads,
                   recording>>

\* App.__init__
Init ==
    /\ doc = 0
    /\ script_data = NoScript
    /\ current_step = 0
    /\ is_narrating = FALSE
    /\ narration_enabled = TRUE
    /\ speed_var = DefaultSpeed
    /\ canvas = <<UnsizedExtent, UnsizedExtent>>
    /\ view = Blank
    /\ timers = <<>>
    /\ threads = EmptyBag
    /\ last = [op |-> "__init__", out |-> "none"]
    /\ recording = FALSE

Next ==
    \/ LoadFiles
    \/ StartNarration
    \/ SkipNarration
    \/ NextFigure
    \/ TimerFires
    \/ NarrateStepReturns
    \/ ToggleNarration
    \/ Configure

Spec == Init /\ [][Next]_vars

\* The application right after load_files(pdf, script) on a fresh App.
Loaded(pdf, script) ==
    load_files([doc |-> 0, script_data |-> NoScript, current_step |-> 0,
                is_narrating |-> FALSE, view |-> Blank, timers |-> <<>>,
                threads |-> EmptyBag, out |-> "none"], pdf, script)

\* App.__init__ followed by load_files on some PDF and some script of the
\* whole family, on a canvas of one of the given sizes.
StartsAs(t) ==
    /\ doc = t.doc
    /\ script_data = t.script_data
    /\ current_step = t.current_step
    /\ is_narrating = t.is_narrating
    /\ view = t.view
    /\ timers = t.timers
    /\ threads = t.threads
    /\ last = [op |-> "load_files", out |-> t.out]

InitLoaded(sizes) ==
    /\ canvas \in sizes
    /\ narration_enabled = TRUE
    /\ speed_var = DefaultSpeed
    /\ \E pdf \in DocChoices, script \in Scripts \cup {NoScript} :
           \E t \in Loaded(pdf, script) : StartsAs(t)

\* The first start of a session: start_narration() with current_step = 0.
StartAtStepZero == current_step = 0 /\ StartNarration

\* One session on any script of the whole family: the files are loaded at
\* startup, before the window is laid out, and not again; narration is
\* started from step 0, and skip_narration(), next_figure() and the
\* callbacks run in any order.
NextFigureSession ==
    \/ StartAtStepZero
    \/ SkipNarration
    \/ NextFigure
    \/ TimerFires
    \/ NarrateStepReturns
    \/ Configure

SpecFigure ==
    /\ InitLoaded(CanvasSizes \ LaidOutSizes)
    /\ recording = FALSE
    /\ [][NextFigureSession]_vars

\* One uninterrupted run: the files (any script of the family) are loaded in
\* a window that is laid out, start_narration() is called at step 0 and no
\* skip_narration(), next_figure() or load_files() follows.  The event loop
\* runs every due callback and every speak() call returns.
NextRun ==
    \/ StartAtStepZero
    \/ TimerFires
    \/ NarrateStepReturns
    \/ ToggleNarration

SpecRun ==
    /\ InitLoaded(LaidOutSizes)
    /\ recording = FALSE
    /\ [][NextRun]_vars
    /\ WF_vars(TimerFires)
    /\ WF_vars(NarrateStepReturns)

\* The first render of a session: a document and a script of one step are
\* loaded in a window of any size, laid out or not; start_narration() is
\* called first thing, the callbacks run when they are due, the speech call
\* returns, and a window that was not laid out is laid out at some time.
InitDisplay ==
    /\ canvas \in ViewportSizes
    /\ narration_enabled = TRUE
    /\ speed_var = DefaultSpeed
    /\ recording = FALSE
    /\ \E script \in OneStepScripts :
           \E t \in Loaded(MaxPage, script) : StartsAs(t)

StartAfterLoad ==
    /\ last.op = "load_files"
    /\ \E t \in start_narration(Self) : Becomes("start_narration", t)

NextDisplay ==
    \/ StartAfterLoad
    \/ TimerFires
    \/ NarrateStepReturns
    \/ Configure

SpecDisplay ==
    /\ InitDisplay
    /\ [][NextDisplay]_vars
    /\ WF_vars(TimerFires)
    /\ WF_vars(NarrateStepReturns)

\* A run with the speed slider: as the uninterrupted run, with the slider
\* moved at any time and the speech threads seen at the line of speak that
\* sets the rate.
NextSpeed ==
    \/ StartAtStepZero
    \/ TimerFires
    \/ SpeakSetsRate
    \/ NarrateStepReturns
    \/ SetSpeed

SpecSpeed ==
    /\ InitLoaded(LaidOutSizes)
    /\ recording = FALSE
    /\ [][NextSpeed]_vars

\* Runs that are skipped and started again, in a window that is laid out,
\* with the history of the speech calls kept.
NextSkip ==
    \/ StartNarration
    \/ SkipNarration
    \/ TimerFires
    \/ NarrateStepReturns

SpecSkip ==
    /\ InitLoaded(LaidOutSizes)
    /\ recording = TRUE
    /\ [][NextSkip]_vars

\* ------------------------------------------- the earlier iteration, main.py
\* display_page of main.py: the page or the zoom_rect at the fixed zoom,
\* whatever the size of the canvas.
main_display_page(s, page_num, zoom_rect) ==
    IF s.doc = 0 \/ page_num >= s.doc
    THEN {s}
    ELSE {[s EXCEPT !.view =
              [kind |-> "image", page_num |-> page_num, zoom_rect |-> zoom_rect,
               pix |-> [clip_rect |-> IF zoom_rect = NoRect
                                      THEN PageRect
                                      ELSE zoom_rect,
                        zoom_factor |-> <<MainZoom, 1>>]]]}

main_process_narration_step(s) ==
    LET steps == s.script_data.narration_steps IN
    IF ~s.is_narrating \/ s.current_step >= Len(steps)
    THEN main_display_page([s EXCEPT !.is_narrating = FALSE,
                                     !.out = "finished"], 0, NoRect)
    ELSE LET step_data == steps[s.current_step + 1] IN
         UNION {after(t, step_data.pre_speech_delay_ms,
                      Callback("_speak_and_continue", 0, NoRect,
                               step_data.narration_text)) :
                t \in main_display_page([s EXCEPT !.out = "step"],
                                        step_data.page_number,
                                        step_data.zoom_rect)}

main_start_narration(s) ==
    IF s.is_narrating \/ ~s.script_data.loaded
    THEN {[s EXCEPT !.out = "ignored"]}
    ELSE main_process_narration_step(
             [s EXCEPT !.is_narrating = TRUE, !.current_step = 0])

main__speak_and_continue(s, text) ==
    {[s EXCEPT !.threads = @ (+) SetToBag({Thread(text)}), !.out = "thread"]}

\* _narrate_step of main.py: speak has no try, so a failure of the engine
\* ends the thread before it posts its completion.
main__narrate_step(s, th) ==
    UNION {IF outcome = "speech error"
           THEN {[s EXCEPT !.threads = @ (-) SetToBag({th}), !.out = outcome]}
           ELSE after([s EXCEPT !.threads = @ (-) SetToBag({th}),
                                !.out = outcome],
                      PostMs, Completion(th)) :
           outcome \in speak(th)}

main__advance_narration_step(s) ==
    main_process_narration_step([s EXCEPT !.current_step = @ + 1])

main_skip_narration(s) ==
    main_process_narration_step([s EXCEPT !.current_step = @ + 1])

main_next_figure(s) ==
    main_process_narration_step([s EXCEPT !.current_step = @ + 1])

\* App.__init__ of main.py: the two files are asked for and loaded, and the
\* first page is shown, before the window is laid out.
main_init(pdf, script) ==
    LET t == [doc |-> pdf, script_data |-> script, current_step |-> 0,
              is_narrating |-> FALSE, view |-> Blank, timers |-> <<>>,
              threads |-> EmptyBag, out |-> "none"]
    IN  IF t.doc /= 0
        THEN main_display_page(t, 0, NoRect)
        ELSE {[t EXCEPT !.view = ErrorText]}

InitMain ==
    /\ canvas = <<UnsizedExtent, UnsizedExtent>>
    /\ narration_enabled = TRUE
    /\ speed_var = DefaultSpeed
    /\ recording = FALSE
    /\ \E pdf \in DocChoices, script \in RampScripts \cup {NoScript} :
           \E t \in main_init(pdf, script) :
               /\ doc = t.doc
               /\ script_data = t.script_data
               /\ current_step = t.current_step
               /\ is_narrating = t.is_narrating
               /\ view = t.view
               /\ timers = t.timers
               /\ threads = t.threads
               /\ last = [op |-> "__init__", out |-> t.out]

\* A button of main.py is followed while current_step is not too far past
\* the end of the script.
MainCommand(op, t) ==
    /\ t.current_step <= Len(t.script_data.narration_steps) + MaxOverrun
    /\ Command(op, t)

MainStartNarration ==
    \E t \in main_start_narration(Self) : MainCommand("start_narration", t)

MainSkipNarration ==
    \E t \in main_skip_narration(Self) : MainCommand("skip_narration", t)

MainNextFigure ==
    \E t \in main_next_figure(Self) : MainCommand("next_figure", t)

MainRun(s, cb) ==
    CASE cb.fn = "_speak_and_continue" -> main__speak_and_continue(s, cb.text)
      [] cb.fn = "_advance_narration_step" -> main__advance_narration_step(s)

MainTimerFires ==
    /\ timers /= <<>>
    /\ \E t \in MainRun([Self EXCEPT !.timers = Tail(timers)],
                         Head(timers).cb) :
           Becomes(Head(timers).cb.fn, t)

MainNarrateStepReturns ==
    \E th \in BagToSet(threads) :
        \E t \in main__narrate_step(Self, th) : Becomes("_narrate_step", t)

NextMain ==
    \/ MainStartNarration
    \/ MainSkipNarration
    \/ MainNextFigure
    \/ MainTimerFires
    \/ MainNarrateStepReturns

SpecMain == InitMain /\ [][NextMain]_vars

\* ------------------------------------------------------------- the claims
steps == script_data.narration_steps

\* The callback process_narration_step schedules for the step at index k.
SpeakTimer(k) ==
    [ms |-> steps[k + 1].pre_speech_delay_ms,
     cb |-> Callback("_speak_and_continue", 0, NoRect,
                     steps[k + 1].narration_text)]

Pending(q, e) == \E k \in 1..Len(q) : q[k] = e

\* How many pending callbacks of q will start or follow a speech call.
SpeechCallbacks(q) ==
    Cardinality({k \in 1..Len(q) :
        q[k].cb.fn \in {"_speak_and_continue", "_advance_narration_step"}})

\* The step at index k can be rendered now: the document has its page and
\* the canvas is laid out.
Renderable(k) == doc /= 0 /\ steps[k + 1].page_number < doc /\ ~Unsized

StepImage(k) == Image(steps[k + 1].page_number, steps[k + 1].zoom_rect)

\* The steps after index i that next_figure may land on.
Targets(i) ==
    {j \in (i + 1)..(Len(steps) - 1) :
        /\ steps[j + 1].page_number /= steps[i + 1].page_number
        /\ steps[j + 1].page_number /= 0}

Least(S) == CHOOSE x \in S : \A y \in S : x <= y

\* C1 (as stated, its end): a run that has finished has reset the view to
\* page 0 with no zoom rectangle.
C1_FinishedShowsTitle ==
    (last.out = "finished" /\ current_step = Len(steps)
        /\ last.op \in {"start_narration", "_advance_narration_step"})
    => view = Image(0, NoRect)

\* One step of an uninterrupted run: current_step stays or grows by one; a
\* narration step is processed only on entering its index (0 at the start,
\* current_step + 1 after a completion); entering an index below len(steps)
\* processes it, and entering len(steps) ends the run and, when a document
\* is loaded, shows page 0 unzoomed.
C1_RunStep ==
    /\ current_step' \in {current_step, current_step + 1}
    /\ last'.out = "step"
          => \/ last'.op = "start_narration" /\ current_step' = 0
             \/ current_step' = current_step + 1
    /\ (current_step' = current_step + 1
          \/ (last'.op = "start_narration" /\ ~is_narrating))
          => IF current_step' < Len(steps)
             THEN /\ last'.out = "step"
                  /\ is_narrating'
                  /\ Pending(timers', SpeakTimer(current_step'))
             ELSE /\ last'.out = "finished"
                  /\ ~is_narrating'
                  /\ doc /= 0 => view' = Image(0, NoRect)

\* C1 (amended): in an uninterrupted run current_step takes the values
\* 0, 1, ..., n in that order, each index 0..n-1 is processed exactly once,
\* and the run eventually reaches the terminal state with is_narrating
\* false; the view is then page 0 unzoomed when a document is loaded.
C1_Run ==
    /\ [][script_data.loaded => C1_RunStep]_vars
    /\ is_narrating ~> (~is_narrating /\ current_step = Len(steps))

\* A run over a script of MaxSteps steps has finished with the narration
\* switched off on the way.
C1_Witness ==
    /\ last = [op |-> "_advance_narration_step", out |-> "finished"]
    /\ Len(steps) = MaxSteps
    /\ current_step = Len(steps)
    /\ ~narration_enabled
    /\ view = Image(0, NoRect)

\* C2: at most one background speech task (a thread in speak()) is
\* outstanding at any time.
C2_OneSpeechTask == BagCardinality(threads) <= 1

\* C3: skip_narration() called while narrating with current_step + 1 <
\* len(steps) adds one to current_step, and when its timer fires the step at
\* the new index is rendered, its pre-speech timer is scheduled and
\* is_narrating is true.
C3_SkipResumes ==
    [][/\ (last'.op = "skip_narration" /\ is_narrating
            /\ current_step + 1 < Len(steps))
          => current_step' = current_step + 1
       /\ (last = [op |-> "skip_narration", out |-> "stopped"]
            /\ last'.op = "process_narration_step"
            /\ current_step < Len(steps))
          => /\ is_narrating'
             /\ current_step' = current_step
             /\ Pending(timers', SpeakTimer(current_step))
             /\ Renderable(current_step) => view' = StepImage(current_step)
      ]_vars

\* C4: skip_narration() called while is_narrating is false leaves
\* current_step, is_narrating, the view and the pending timers unchanged.
C4_SkipIdleNoOp ==
    [][(last'.op = "skip_narration" /\ ~is_narrating)
          => UNCHANGED <<current_step, is_narrating, view, timers>>]_vars

\* skip_narration() has been called on an idle sequencer that still has
\* callbacks or threads pending from an earlier run.
C4_Witness ==
    /\ last = [op |-> "skip_narration", out |-> "ignored"]
    /\ script_data.loaded
    /\ Len(timers) + BagCardinality(threads) > 0

\* C5: next_figure() called with current_step = i < len(steps) sets
\* current_step to the smallest j > i whose page differs from step i's page
\* and is not 0, whenever there is such a j.
C5_NextFigureTarget ==
    [][(last'.op = "next_figure" /\ script_data.loaded
          /\ current_step < Len(steps) /\ Targets(current_step) /= {})
          => current_step' = Least(Targets(current_step))]_vars

\* next_figure() has jumped from a narrating sequencer to the last of three
\* steps, which follows a title-page step.
C5_Witness ==
    /\ last = [op |-> "next_figure", out |-> "stopped"]
    /\ Len(steps) = 3
    /\ current_step = 2
    /\ steps[1].page_number = 1
    /\ steps[2].page_number = 0

\* C6: next_figure() called with a script loaded and no later step on
\* another page than the current step's and than page 0 changes nothing
\* and reports that no figure was found.
C6_NoFigureNoOp ==
    [][(last'.op = "next_figure" /\ script_data.loaded
          /\ current_step < Len(steps) /\ Targets(current_step) = {})
          => /\ UNCHANGED <<current_step, is_narrating, view, timers, threads>>
             /\ last'.out = "not found"]_vars

\* next_figure() has found nothing while narrating a step that has later
\* steps behind it.
C6_Witness ==
    /\ last = [op |-> "next_figure", out |-> "not found"]
    /\ is_narrating
    /\ current_step + 1 < Len(steps)

\* C7: next_figure() called while narrating that finds a target step j
\* restarts the pipeline at j: when its timer fires step j is rendered, its
\* pre-speech timer is scheduled and is_narrating is true.
C7_NextFigureResumes ==
    [][(last = [op |-> "next_figure", out |-> "stopped"]
          /\ last'.op = "process_narration_step")
          => /\ is_narrating'
             /\ current_step' = current_step
             /\ Pending(timers', SpeakTimer(current_step))
             /\ Renderable(current_step) => view' = StepImage(current_step)
      ]_vars

\* C8: next_figure() called while idle that finds a target step j shows
\* step j's page with step j's zoom_rect, leaves is_narrating false and
\* schedules no speech.
C8_NextFigureRendersIdle ==
    [][(last'.op = "next_figure" /\ script_data.loaded /\ ~is_narrating
          /\ current_step < Len(steps) /\ Targets(current_step) /= {})
          => /\ Renderable(current_step') => view' = StepImage(current_step')
             /\ ~is_narrating'
             /\ SpeechCallbacks(timers') = SpeechCallbacks(timers)
             /\ threads' = threads]_vars

\* C9 (as stated): start_narration() changes nothing when no script is
\* loaded or narration is on; otherwise it sets current_step = 0 and
\* is_narrating = true and processes step 0.
C9_StartBeginsStepZero ==
    [][last'.op = "start_narration"
          => IF is_narrating \/ ~script_data.loaded
             THEN UNCHANGED <<current_step, is_narrating, view, timers>>
             ELSE /\ current_step' = 0
                  /\ is_narrating'
                  /\ last'.out = "step"]_vars

\* C9 (amended): as above, but on a script with no steps the call sets
\* current_step = 0 and ends the run at once with is_narrating = false.
C9_Start ==
    [][last'.op = "start_narration"
          => IF is_narrating \/ ~script_data.loaded
             THEN UNCHANGED <<current_step, is_narrating, view, timers>>
             ELSE /\ current_step' = 0
                  /\ IF Len(steps) > 0
                     THEN /\ is_narrating'
                          /\ last'.out = "step"
                          /\ Pending(timers', SpeakTimer(0))
                     ELSE /\ ~is_narrating'
                          /\ last'.out = "finished"]_vars

\* start_narration() has restarted a script after an earlier run was
\* skipped past step 0.
C9_Witness ==
    /\ last = [op |-> "start_narration", out |-> "step"]
    /\ is_narrating
    /\ current_step = 0
    /\ Pending(timers, SpeakTimer(0))
    /\ Pending(timers, [ms |-> RestartMs,
                        cb |-> Callback("process_narration_step", 0, NoRect, 0)])

\* C10: in every reachable state 0 <= current_step <= len(steps) of the
\* script that is loaded.
C10_StepInRange == 0 <= current_step /\ current_step <= Len(steps)

\* skip_narration() on the last step has moved current_step to len(steps).
C10_Witness ==
    /\ last = [op |-> "skip_narration", out |-> "stopped"]
    /\ Len(steps) > 0
    /\ current_step = Len(steps)

\* The queue q without its callback at position p.
Without(q, p) == SubSeq(q, 1, p - 1) \o SubSeq(q, p + 1, Len(q))

\* The callback a speech thread posts when _narrate_step ends.
Posted ==
    [ms |-> PostMs, cb |-> Callback("_advance_narration_step", 0, NoRect, 0)]

\* C11: when speak fails the failure is caught inside speak and the thread
\* still posts exactly one completion, the one a successful utterance posts;
\* the completion advances the sequencer by one step, and the uninterrupted
\* run still reaches its terminal state.
C11_SpeechFailure ==
    /\ [][last'.op = "_narrate_step"
            => /\ \E p \in 1..Len(timers') :
                      timers'[p] = Posted /\ Without(timers', p) = timers
               /\ BagCardinality(threads') = BagCardinality(threads) - 1
               /\ UNCHANGED <<current_step, is_narrating, view>>]_vars
    /\ [][last'.op = "_advance_narration_step"
            => current_step' = current_step + 1]_vars
    /\ (last = [op |-> "_narrate_step", out |-> "speech error"])
          ~> (~is_narrating /\ current_step = Len(steps))

\* The speech call of the last of several steps has failed and its
\* completion is in the queue.
C11_Witness ==
    /\ last = [op |-> "_narrate_step", out |-> "speech error"]
    /\ is_narrating
    /\ Len(steps) > 1
    /\ current_step = Len(steps) - 1
    /\ timers = <<Posted>>

\* C12: while script_data is None (the script file failed to load),
\* current_step is 0 and is_narrating is false, and start_narration(),
\* skip_narration() and next_figure() return at once: they change neither of
\* the two nor the view, and start no timer and no speech thread.
C12_NoScriptNoNarration ==
    /\ [](~script_data.loaded => (current_step = 0 /\ ~is_narrating))
    /\ [][(~script_data.loaded
            /\ last'.op \in {"start_narration", "skip_narration", "next_figure"})
          => /\ UNCHANGED <<current_step, is_narrating, view, timers, threads>>
             /\ last'.out = "ignored"]_vars

\* start_narration() has been called after a document was loaded with a
\* script that failed to load, while a speech call of the run before the
\* load is still going.
C12_Witness ==
    /\ last = [op |-> "start_narration", out |-> "ignored"]
    /\ ~script_data.loaded
    /\ doc /= 0
    /\ threads /= EmptyBag

\* C13: the uniform scale n / d of a rendered image equals
\* min(Vw / W, Vh / H) for the canvas Vw x Vh and the clip rectangle W x H,
\* which is the zoom_rect when that has positive width and height; so
\* W * scale <= Vw and H * scale <= Vh, with equality in one of the two.
C13_ScaleFits ==
    view.kind = "image"
    => LET rect == view.pix.clip_rect
           W == rect[3] - rect[1]
           H == rect[4] - rect[2]
           Vw == canvas[1]
           Vh == canvas[2]
           n == view.pix.zoom_factor[1]
           d == view.pix.zoom_factor[2]
       IN  /\ (view.zoom_rect /= NoRect
                 /\ view.zoom_rect[3] > view.zoom_rect[1]
                 /\ view.zoom_rect[4] > view.zoom_rect[2])
              => rect = view.zoom_rect
           /\ W > 0 /\ H > 0 /\ d > 0
           /\ IF Vw * H <= Vh * W THEN n * W = Vw * d ELSE n * H = Vh * d
           /\ W * n <= Vw * d
           /\ H * n <= Vh * d
           /\ (W * n = Vw * d \/ H * n = Vh * d)

\* Step 0, a 2 x 1 rectangle, is shown on a 3 x 4 canvas at the scale
\* 3 / 2, taken from the widths; it leaves room below.
C13_Witness ==
    /\ last = [op |-> "start_narration", out |-> "step"]
    /\ view.kind = "image"
    /\ view.zoom_rect = <<1, 1, 3, 2>>
    /\ canvas = <<3, 4>>
    /\ view.pix.zoom_factor[1] * 2 = 3 * view.pix.zoom_factor[2]

\* C14: a zoom_rect whose width or height is not positive is replaced by
\* the bounds of the page before the scale is computed: the image has the
\* clip rectangle and the scale of a render of the full page.
C14_InvalidRectFullPage ==
    (view.kind = "image" /\ view.zoom_rect /= NoRect
        /\ (width(view.zoom_rect) <= 0 \/ height(view.zoom_rect) <= 0))
    => LET Pw == PageRect[3] - PageRect[1]
           Ph == PageRect[4] - PageRect[2]
           n == view.pix.zoom_factor[1]
           d == view.pix.zoom_factor[2]
       IN  /\ view.pix.clip_rect = PageRect
           /\ d > 0
           /\ IF canvas[1] * Ph <= canvas[2] * Pw
              THEN n * Pw = canvas[1] * d
              ELSE n * Ph = canvas[2] * d
           /\ view.pix = Image(view.page_num, NoRect).pix

\* Step 0 has been rendered on page 1 with a zoom_rect that is turned over
\* in x and empty in y.
C14_Witness ==
    /\ last = [op |-> "start_narration", out |-> "step"]
    /\ view.kind = "image"
    /\ view.page_num = 1
    /\ view.zoom_rect = <<1, 1, 0, 1>>
    /\ view.pix.clip_rect = PageRect

\* The retry display_page schedules for page_num and zoom_rect.
Retry(page_num, zoom_rect) ==
    [ms |-> RetryMs, cb |-> Callback("display_page", page_num, zoom_rect, 0)]

RetryPending == \E k \in 1..Len(timers) : timers[k].cb.fn = "display_page"

\* C20: on a canvas that is not laid out, display_page computes no scale
\* and leaves the canvas as it is; it schedules a retry with the same page
\* and zoom rectangle (for the render of step 0 at the start, and again for
\* a retry that runs too early), and the retry that runs on a laid-out
\* canvas renders that page and rectangle.  Once the canvas is laid out the
\* retries run out.
C20_UnsizedDeferred ==
    /\ [][(last'.op = "start_narration" /\ last'.out = "step" /\ Unsized
            /\ steps[1].page_number < doc)
            => /\ view' = view
               /\ Pending(timers',
                          Retry(steps[1].page_number, steps[1].zoom_rect))
          ]_vars
    /\ [][(last'.op = "display_page" /\ last'.out = "display")
            => LET cb == Head(timers).cb
               IN  IF Unsized
                   THEN /\ view' = view
                        /\ Pending(timers', Retry(cb.page_num, cb.zoom_rect))
                        /\ Len(timers') = Len(timers)
                   ELSE /\ view'.kind = "image"
                        /\ view'.page_num = cb.page_num
                        /\ view'.zoom_rect = cb.zoom_rect
                        /\ timers' = Tail(timers)]_vars
    /\ (~Unsized /\ RetryPending) ~> ~RetryPending

\* The render of step 0, page 1 with a zoom_rect, was deferred on a canvas
\* that was not laid out, and its retry has now rendered it.
C20_Witness ==
    /\ last = [op |-> "display_page", out |-> "display"]
    /\ ~Unsized
    /\ view.kind = "image"
    /\ view.page_num = 1
    /\ view.zoom_rect = <<1, 1, 3, 3>>

\* C15: the rate of a speech call is the one of the speed setting in effect
\* when the call was issued; a change of the setting made after that has no
\* effect on the call.
C15_RateAsIssued ==
    \A th \in BagToSet(threads) :
        th.rate /= NoRate => th.rate = <<Rate(th.issued)>>

\* C16: no command raises an index-out-of-range error on narration_steps.
C16_NoIndexError == last.out /= "IndexError"

\* C17: after skip_narration() the completion of the speech call of the
\* skipped step never changes current_step and never has a step processed.
C17_SkippedCompletionInert ==
    [][(timers /= <<>> /\ last'.op = "_advance_narration_step"
          /\ Head(timers).cb.skipped)
          => (current_step' = current_step /\ last'.out = "ignored")]_vars

\* The callback _speak_and_continue schedules when narration is disabled.
Grace ==
    [ms |-> GraceMs, cb |-> Callback("_advance_narration_step", 0, NoRect, 0)]

\* C18: when the pre-speech timer of the current step fires with narration
\* disabled, no speech thread is started and _advance_narration_step is
\* scheduled after the grace delay, which then moves to the next step; with
\* narration enabled exactly one speech thread is started, with the
\* narration_text of the step.
C18_DisabledNoSpeech ==
    /\ [][last'.op = "_speak_and_continue"
            => /\ Head(timers).cb.text = steps[current_step + 1].narration_text
               /\ UNCHANGED <<current_step, is_narrating, view>>
               /\ IF narration_enabled
                  THEN /\ threads' = threads
                              (+) SetToBag({[text |-> Head(timers).cb.text,
                                             rate |-> NoRate,
                                             issued |-> speed_var,
                                             skipped |-> FALSE]})
                       /\ timers' = Tail(timers)
                  ELSE /\ threads' = threads
                       /\ \E p \in 1..Len(timers') :
                              /\ timers'[p] = Grace
                              /\ Without(timers', p) = Tail(timers)]_vars
    /\ [][(last'.op = "_advance_narration_step" /\ Head(timers) = Grace)
            => (current_step' = current_step + 1
                   /\ last'.out \in {"step", "finished"})]_vars

\* The pre-speech timer of the second step has fired with narration
\* disabled.
C18_Witness ==
    /\ last = [op |-> "_speak_and_continue", out |-> "grace"]
    /\ ~narration_enabled
    /\ current_step = 1
    /\ threads = EmptyBag
    /\ timers = <<Grace>>

\* C19 (its first part): the speech thread of a step is never started
\* before the region of the step is on the canvas, whatever the size of the
\* canvas and the pre_speech_delay_ms.
C19_RenderBeforeSpeech ==
    [][(last'.op = "_speak_and_continue" /\ last'.out = "thread"
          /\ is_narrating /\ steps[current_step + 1].page_number < doc)
          => /\ view.kind = "image"
             /\ view.page_num = steps[current_step + 1].page_number
             /\ view.zoom_rect = steps[current_step + 1].zoom_rect]_vars

\* C21: no speech thread is ever started while is_narrating is false: a
\* pre-speech timer that is still pending when skip_narration(),
\* next_figure() or load_files() clears is_narrating starts no speech thread
\* when it fires.
C21_NoSpeechWhenIdle ==
    [][(last'.op = "_speak_and_continue" /\ ~is_narrating)
          => threads' = threads]_vars

\* C22: in main.py, in every state reached by start_narration(),
\* skip_narration(), next_figure(), timer callbacks and speech completions,
\* current_step lies in [0, len(steps)] of the script that is loaded.
C22_MainStepInRange ==
    script_data.loaded => current_step \in 0..Len(script_data.narration_steps)

====
